---- MODULE Spec2Model ----
(***************************************************************************)
(* pytracker (src/pytracker.py): the Story entity, its XML codec, the      *)
(* hosted auth provider and the Tracker API client.                        *)
(*                                                                         *)
(* Python strings are sequences of one-character strings, so that split,   *)
(* strip, slicing, sorting and strptime act on the characters.  A Python   *)
(* value that may be None, a string or an int is a record [t, s, n].       *)
(* An XML document is [wf, stories]: wf says whether the text is           *)
(* well-formed, stories holds one sequence of elements per story element   *)
(* (a single-story document holds one).  An element is [tag, text, type];  *)
(* an element without child nodes has text <<>>.                           *)
(***************************************************************************)
EXTENDS Integers, Sequences, FiniteSets, TLC

VARIABLES
  story,      \* the caller's Story object
  calls,      \* mutator calls made on `story` since it was constructed/decoded
  lastOp,     \* name of the most recent call
  raised,     \* exception the most recent call raised, or "none"
  argText,    \* <<text>>: the string argument of the most recent call, if any
  argDoc,     \* <<doc>>: the XML the most recent call decoded, if any
  retXml,     \* <<doc>>: the XML the most recent call returned, if any
  retStr,     \* Python value the most recent call returned (GetLabelsAsString)
  ret,        \* sequence of Story objects the most recent call returned
  tracker,    \* "none" before Tracker(), "ready" once constructed, "failed"
  token,      \* Tracker.token
  authCalls,  \* number of EstablishAuthToken invocations
  request,    \* <<req>>: the HTTP request the most recent Tracker call issued
  response    \* <<resp>>: the HTTP answer it received

vars == <<story, calls, lastOp, raised, argText, argDoc, retXml, retStr, ret,
          tracker, token, authCalls, request, response>>

storyVars == <<story, calls>>
trackerVars == <<tracker, token, authCalls, request, response>>

(***************************************************************************)
(* Bounds                                                                  *)
(***************************************************************************)
\* mutator calls per Story object
MaxCalls == 3

(***************************************************************************)
(* Python values                                                           *)
(***************************************************************************)
None == [t |-> "none", s |-> <<>>, n |-> 0]
PyStr(x) == [t |-> "str", s |-> x, n |-> 0]
PyInt(k) == [t |-> "int", s |-> <<>>, n |-> k]

\* Python truth value: None, '' and 0 are false.
Truthy(v) ==
  \/ v.t = "str" /\ v.s # <<>>
  \/ v.t = "int" /\ v.n # 0

Digits == <<"0", "1", "2", "3", "4", "5", "6", "7", "8", "9">>
IsDigit(c) == \E i \in 1..10 : Digits[i] = c
DigitVal(c) == (CHOOSE i \in 1..10 : Digits[i] = c) - 1
IsSpace(c) == c = " "

RECURSIVE IntToStr(_)
IntToStr(k) ==
  IF k < 10 THEN <<Digits[k + 1]>>
  ELSE Append(IntToStr(k \div 10), Digits[(k % 10) + 1])

Pad2(k) == <<Digits[(k \div 10) + 1], Digits[(k % 10) + 1]>>
Pad4(k) == Pad2(k \div 100) \o Pad2(k % 100)

\* unicode(v) for a str or a non-negative int
Unicode(v) == IF v.t = "int" THEN IntToStr(v.n) ELSE v.s

\* the decimal value of the first n characters of s
RECURSIVE DigitsValue(_, _)
DigitsValue(s, n) ==
  IF n = 0 THEN 0 ELSE 10 * DigitsValue(s, n - 1) + DigitVal(s[n])

DigitsToInt(s) == DigitsValue(s, Len(s))

AllDigits(s) == s # <<>> /\ \A i \in 1..Len(s) : IsDigit(s[i])

Range(f) == {f[i] : i \in DOMAIN f}

\* str.strip(): whitespace removed at both ends
RECURSIVE Strip(_)
Strip(s) ==
  IF s = <<>> THEN s
  ELSE IF IsSpace(s[1]) THEN Strip(Tail(s))
  ELSE IF IsSpace(s[Len(s)]) THEN Strip(SubSeq(s, 1, Len(s) - 1))
  ELSE s

\* str.split(','): the pieces between the commas, '' included.  The j-th
\* piece runs from the (j-1)-th comma to the j-th one.
Split(s) ==
  LET commas == {i \in 1..Len(s) : s[i] = ","}
      Comma(j) == IF j = 0 THEN 0
                  ELSE IF j > Cardinality(commas) THEN Len(s) + 1
                  ELSE CHOOSE i \in commas :
                         Cardinality({c \in commas : c <= i}) = j
  IN [j \in 1..(Cardinality(commas) + 1) |->
        SubSeq(s, Comma(j - 1) + 1, Comma(j) - 1)]

\* characters in code point order
Alphabet == <<" ", ",", "/", "0", "1", "2", "3", "4", "5", "6", "7", "8",
              "9", ":", "C", "G", "M", "P", "S", "T", "U",
              "a", "b", "c", "d", "e", "f", "g", "h", "i", "l", "o", "p",
              "r", "s", "t", "u", "x">>
Ord(c) == IF \E i \in 1..Len(Alphabet) : Alphabet[i] = c
          THEN CHOOSE i \in 1..Len(Alphabet) : Alphabet[i] = c
          ELSE 0

\* a < b for Python strings
RECURSIVE StrLess(_, _)
StrLess(a, b) ==
  IF b = <<>> THEN FALSE
  ELSE IF a = <<>> THEN TRUE
  ELSE IF a[1] = b[1] THEN StrLess(Tail(a), Tail(b))
  ELSE Ord(a[1]) < Ord(b[1])

\* list(S); lst.sort()
RECURSIVE Sorted(_)
Sorted(S) ==
  IF S = {} THEN <<>>
  ELSE LET m == CHOOSE x \in S : \A y \in S \ {x} : StrLess(x, y)
       IN <<m>> \o Sorted(S \ {m})

\* ','.join(lst)
RECURSIVE Join(_)
Join(lst) ==
  IF lst = <<>> THEN <<>>
  ELSE IF Len(lst) = 1 THEN lst[1]
  ELSE lst[1] \o <<",">> \o Join(Tail(lst))


(***************************************************************************)
(* Dates: calendar.timegm, time.gmtime, time.strftime, time.strptime       *)
(***************************************************************************)
IsLeap(y) == y % 4 = 0 /\ (y % 100 # 0 \/ y % 400 = 0)
MDays == <<31, 28, 31, 30, 31, 30, 31, 31, 30, 31, 30, 31>>
DaysInMonth(y, m) == IF m = 2 /\ IsLeap(y) THEN 29 ELSE MDays[m]

\* days in the years before year y (proleptic Gregorian)
DaysBeforeYear(y) ==
  365 * (y - 1) + ((y - 1) \div 4) - ((y - 1) \div 100) + ((y - 1) \div 400)

RECURSIVE DaysBeforeMonth(_, _)
DaysBeforeMonth(y, m) ==
  IF m = 1 THEN 0 ELSE DaysBeforeMonth(y, m - 1) + DaysInMonth(y, m - 1)

\* days from 1970/01/01 to the given date
DaysSinceEpoch(y, m, d) ==
  DaysBeforeYear(y) - DaysBeforeYear(1970) + DaysBeforeMonth(y, m) + d - 1

\* calendar.timegm: a broken-down UTC time to seconds since the epoch
Timegm(w) ==
  ((DaysSinceEpoch(w.Y, w.m, w.d) * 24 + w.H) * 60 + w.M) * 60 + w.S

\* time.gmtime: seconds since the epoch (>= 0) to a broken-down UTC time
\* the year that holds day number `days` since the epoch
YearOfDay(days) ==
  CHOOSE c \in (1970 + (days \div 366))..(1972 + (days \div 366)) :
    /\ DaysSinceEpoch(c, 1, 1) <= days
    /\ days < DaysSinceEpoch(c + 1, 1, 1)

\* the month of year y that holds day yd (from 0) of the year
MonthOfDay(y, yd) ==
  CHOOSE c \in 1..12 :
    /\ DaysBeforeMonth(y, c) <= yd
    /\ yd < DaysBeforeMonth(y, c) + DaysInMonth(y, c)

BrokenDown(y, m, yd, rem) ==
  [ok |-> TRUE, Y |-> y, m |-> m, d |-> yd - DaysBeforeMonth(y, m) + 1,
   H |-> rem \div 3600, M |-> (rem % 3600) \div 60, S |-> rem % 60]

GmtimeInYear(y, yd, rem) == BrokenDown(y, MonthOfDay(y, yd), yd, rem)

GmtimeOfDay(days, y, rem) ==
  GmtimeInYear(y, days - DaysSinceEpoch(y, 1, 1), rem)

\* time.gmtime: seconds since the epoch (>= 0) to a broken-down UTC time
Gmtime(secs) ==
  GmtimeOfDay(secs \div 86400, YearOfDay(secs \div 86400), secs % 86400)

\* time.strftime('%Y/%m/%d %H:%M:%S UTC', w)
Strftime(w) ==
  Pad4(w.Y) \o <<"/">> \o Pad2(w.m) \o <<"/">> \o Pad2(w.d) \o <<" ">>
  \o Pad2(w.H) \o <<":">> \o Pad2(w.M) \o <<":">> \o Pad2(w.S)
  \o <<" ", "U", "T", "C">>

At(s, i) == IF i >= 1 /\ i <= Len(s) THEN s[i] ELSE ""
DigitIn(c, lo, hi) == IsDigit(c) /\ DigitVal(c) >= lo /\ DigitVal(c) <= hi

\* Lengths the directives of _strptime's regular expression match at s[i]
\* (0: no match).  %m is 1[0-2]|0[1-9]|[1-9]
MonthLen(s, i) ==
  IF \/ At(s, i) = "1" /\ DigitIn(At(s, i + 1), 0, 2)
     \/ At(s, i) = "0" /\ DigitIn(At(s, i + 1), 1, 9)
  THEN 2
  ELSE IF DigitIn(At(s, i), 1, 9) THEN 1 ELSE 0

\* %d is 3[0-1]|[1-2]\d|0[1-9]|[1-9]| [1-9]
DayLen(s, i) ==
  IF \/ At(s, i) = "3" /\ DigitIn(At(s, i + 1), 0, 1)
     \/ DigitIn(At(s, i), 1, 2) /\ IsDigit(At(s, i + 1))
     \/ At(s, i) = "0" /\ DigitIn(At(s, i + 1), 1, 9)
  THEN 2
  ELSE IF DigitIn(At(s, i), 1, 9) THEN 1
  ELSE IF At(s, i) = " " /\ DigitIn(At(s, i + 1), 1, 9) THEN 2 ELSE 0

\* %H is 2[0-3]|[0-1]\d|\d
HourLen(s, i) ==
  IF \/ At(s, i) = "2" /\ DigitIn(At(s, i + 1), 0, 3)
     \/ DigitIn(At(s, i), 0, 1) /\ IsDigit(At(s, i + 1))
  THEN 2
  ELSE IF IsDigit(At(s, i)) THEN 1 ELSE 0

\* %M is [0-5]\d|\d
MinuteLen(s, i) ==
  IF DigitIn(At(s, i), 0, 5) /\ IsDigit(At(s, i + 1)) THEN 2
  ELSE IF IsDigit(At(s, i)) THEN 1 ELSE 0

\* %S is 6[0-1]|[0-5]\d|\d
SecondLen(s, i) ==
  IF \/ At(s, i) = "6" /\ DigitIn(At(s, i + 1), 0, 1)
     \/ DigitIn(At(s, i), 0, 5) /\ IsDigit(At(s, i + 1))
  THEN 2
  ELSE IF IsDigit(At(s, i)) THEN 1 ELSE 0

\* \s+ : the run of whitespace at s[i]
RECURSIVE SpaceLen(_, _)
SpaceLen(s, i) == IF IsSpace(At(s, i)) THEN 1 + SpaceLen(s, i + 1) ELSE 0

\* the format '%Y/%m/%d %H:%M:%S' as _strptime compiles it: directives,
\* literal characters, and \s+ for the space
DATE_DIRECTIVES == <<"Y", "/", "m", "/", "d", " ", "H", ":", "M", ":", "S">>

\* length of the match of directive k at s[i] (0: no match); %Y is \d\d\d\d
DirectiveLen(k, s, i) ==
  CASE k = "Y" -> IF \A j \in i..(i + 3) : IsDigit(At(s, j)) THEN 4 ELSE 0
    [] k = "m" -> MonthLen(s, i)
    [] k = "d" -> DayLen(s, i)
    [] k = "H" -> HourLen(s, i)
    [] k = "M" -> MinuteLen(s, i)
    [] k = "S" -> SecondLen(s, i)
    [] k = " " -> SpaceLen(s, i)
    [] OTHER   -> IF At(s, i) = k THEN 1 ELSE 0

NoTime == [ok |-> FALSE, Y |-> 0, m |-> 0, d |-> 0, H |-> 0, M |-> 0, S |-> 0]

\* the regular expression match from directive k on, the fields found so far
\* in w; all of s must be consumed ("unconverted data remains")
RECURSIVE MatchDirectives(_, _, _, _)
MatchDirectives(s, i, k, w) ==
  IF k > Len(DATE_DIRECTIVES) THEN [w EXCEPT !.ok = (i = Len(s) + 1)]
  ELSE CHOOSE r \in
         {IF n = 0 THEN NoTime
          ELSE MatchDirectives(s, i + n, k + 1,
                 IF DATE_DIRECTIVES[k] \in {"Y", "m", "d", "H", "M", "S"}
                 THEN [w EXCEPT ![DATE_DIRECTIVES[k]] =
                         DigitsToInt(Strip(SubSeq(s, i, i + n - 1)))]
                 ELSE w) :
            n \in {DirectiveLen(DATE_DIRECTIVES[k], s, i)}} : TRUE

\* time.strptime(s, '%Y/%m/%d %H:%M:%S'): ok is FALSE where it raises
\* ValueError (no match, unconverted data, or a day the month does not have)
ValidDate(w) ==
  IF w.ok /\ w.Y >= 1 /\ w.d <= DaysInMonth(w.Y, w.m) THEN w ELSE NoTime

Strptime(s) == ValidDate(MatchDirectives(s, 1, 1, NoTime))

(***************************************************************************)
(* Story                                                                   *)
(***************************************************************************)
UPDATE_FIELDS == <<"story_type", "current_state", "name", "description",
                   "estimate", "requested_by", "owned_by">>

\* class attributes of Story: every field None.  labels is <<>> for None and
\* <<S>> for the set S.
BareStory ==
  [story_id |-> None, iteration_number |-> None, created_at |-> None,
   deadline |-> None, labels |-> <<>>, url |-> None, requested_by |-> None,
   owned_by |-> None, story_type |-> None, current_state |-> None,
   description |-> None, name |-> None, estimate |-> None]

ValidStoryTypes ==
  {<<"b", "u", "g">>, <<"c", "h", "o", "r", "e">>,
   <<"r", "e", "l", "e", "a", "s", "e">>,
   <<"f", "e", "a", "t", "u", "r", "e">>}

\* the plain setters: self.<field> = value
SetAttr(s, field, v) == [s EXCEPT ![field] = v]

\* SetStoryType asserts the value before it stores it
SetStoryTypeOk(v) == v.t = "str" /\ v.s \in ValidStoryTypes

AddLabel(s, label) ==
  LET cur == IF s.labels = <<>> THEN {} ELSE s.labels[1]
  IN [s EXCEPT !.labels = <<cur \cup {label}>>]

\* RemoveLabel with "self.labels.clear()" for "self.labels.remove(label)"
RemoveLabelClearsAll(s, label) == [s EXCEPT !.labels = <<{}>>]

RemoveLabel(s, label) ==
  IF s.labels = <<>> THEN [s EXCEPT !.labels = <<{}>>]
  ELSE [s EXCEPT !.labels = <<s.labels[1] \ {label}>>]

\* [x.strip() for x in labels.split(',')], as a set
StrippedParts(labels) ==
  {Strip(part) : part \in Range(Split(labels))}

AddLabelsFromString(s, labels) ==
  LET cur == IF s.labels = <<>> THEN {} ELSE s.labels[1]
  IN [s EXCEPT !.labels = <<cur \cup StrippedParts(labels)>>]

GetLabelsAsString(s) ==
  IF s.labels = <<>> THEN None ELSE PyStr(Join(Sorted(s.labels[1])))

Element(tag, text, type) == [tag |-> tag, text |-> text, type |-> type]

\* the loop of ToXml with "if v:" for "if v is not None:"
RECURSIVE ScalarElementsIfTruthy(_, _)
ScalarElementsIfTruthy(s, i) ==
  IF i > Len(UPDATE_FIELDS) THEN <<>>
  ELSE (IF Truthy(s[UPDATE_FIELDS[i]])
        THEN <<Element(UPDATE_FIELDS[i], Unicode(s[UPDATE_FIELDS[i]]), "")>>
        ELSE <<>>)
       \o ScalarElementsIfTruthy(s, i + 1)

\* ToXml, the loop over UPDATE_FIELDS from field i on
RECURSIVE ScalarElements(_, _)
ScalarElements(s, i) ==
  IF i > Len(UPDATE_FIELDS) THEN <<>>
  ELSE (IF s[UPDATE_FIELDS[i]] # None
        THEN <<Element(UPDATE_FIELDS[i], Unicode(s[UPDATE_FIELDS[i]]), "")>>
        ELSE <<>>)
       \o ScalarElements(s, i + 1)

\* ToXml: "if self.labels:"
LabelsElement(s) ==
  IF s.labels # <<>> /\ s.labels[1] # {}
  THEN <<Element("labels", GetLabelsAsString(s).s, "")>>
  ELSE <<>>

\* ToXml: "if self.deadline:" / "if self.created_at:"
DateElement(tag, v) ==
  IF Truthy(v)
  THEN <<Element(tag, Strftime(Gmtime(v.n)), "datetime")>>
  ELSE <<>>

\* the child elements of the <story> document ToXml builds
ToXmlElements(s) ==
  ScalarElements(s, 1) \o LabelsElement(s)
  \o DateElement("deadline", s.deadline)
  \o DateElement("created_at", s.created_at)

Doc(wf, stories) == [wf |-> wf, stories |-> stories]

ToXml(s) == Doc(TRUE, <<ToXmlElements(s)>>)


(***************************************************************************)
(* Story.FromXml                                                           *)
(***************************************************************************)
RECURSIVE Flatten(_)
Flatten(ss) == IF ss = <<>> THEN <<>> ELSE Head(ss) \o Flatten(Tail(ss))

\* dom.getElementsByTagName(tag): the matching elements in document order
GetElementsByTagName(els, tag) == SelectSeq(els, LAMBDA e : e.tag = tag)

\* _GetDataFromTag: None, '' or the tag body
TagData(tags) ==
  IF tags = <<>> THEN None
  ELSE IF tags[1].text # <<>> THEN PyStr(tags[1].text)
  ELSE PyStr(<<>>)

GetDataFromTag(els, tag) == TagData(GetElementsByTagName(els, tag))

Result(exc, v) == [exc |-> exc, v |-> v]

\* _ParseDatetimeIntoSecs: the tag body as seconds since the epoch
\* calendar.timegm(when), where strptime has not raised
SecsOf(when) ==
  IF ~when.ok THEN Result("ValueError", None)
  ELSE Result("none", PyInt(Timegm(when)))

\* data[:-4] strips the timezone indicator
DatetimeElementSecs(el) ==
  IF el = <<>> THEN Result("none", None)
  ELSE IF el[1].type # "datetime" THEN Result("AssertionError", None)
  ELSE IF el[1].text = <<>> THEN Result("AttributeError", None)
  ELSE SecsOf(Strptime(SubSeq(el[1].text, 1, Len(el[1].text) - 4)))

ParseDatetimeIntoSecs(els, tag) ==
  DatetimeElementSecs(GetElementsByTagName(els, tag))

\* parsed.getElementsByTagName(tag)[0].firstChild.data
FirstData(tags) ==
  IF tags = <<>> THEN Result("IndexError", None)
  ELSE IF tags[1].text = <<>> THEN Result("AttributeError", None)
  ELSE Result("none", PyStr(tags[1].text))

FirstChildData(els, tag) == FirstData(GetElementsByTagName(els, tag))

\* int(text) of a decimal literal, surrounding whitespace allowed
ParseInt(r) ==
  IF r.exc # "none" THEN r
  ELSE IF AllDigits(Strip(r.v.s))
       THEN Result("none", PyInt(DigitsToInt(Strip(r.v.s))))
       ELSE Result("ValueError", None)

RECURSIVE FirstError(_)
FirstError(excs) ==
  IF excs = <<>> THEN "none"
  ELSE IF Head(excs) # "none" THEN Head(excs)
  ELSE FirstError(Tail(excs))

\* "if iteration: story.iteration_number = int(iteration)"
IterationNumber(iteration) ==
  IF Truthy(iteration) THEN ParseInt(Result("none", iteration))
  ELSE Result("none", None)

\* story.SetStoryType(...): the assert of the setter
StoryTypeExc(stype) ==
  IF stype.exc # "none" THEN stype.exc
  ELSE IF SetStoryTypeOk(stype.v) THEN "none"
  ELSE "AssertionError"

\* "if labels is not None: story.AddLabelsFromString(labels)" on labels None
DecodedLabels(labels) ==
  IF labels # None THEN <<StrippedParts(labels.s)>> ELSE <<>>

\* the Story FromXml returns, or the first exception in statement order
FromXmlFields(id, url, owned_by, created, requested_by, number, stype, state, name, description, deadline, estimate, labels) ==
  IF FirstError(<<id.exc, url.exc, created.exc, number.exc,
                  StoryTypeExc(stype), state.exc, deadline.exc>>) # "none"
  THEN Result(FirstError(<<id.exc, url.exc, created.exc, number.exc,
                           StoryTypeExc(stype), state.exc, deadline.exc>>),
              BareStory)
  ELSE Result("none",
         [story_id |-> id.v, iteration_number |-> number.v,
          created_at |-> created.v, deadline |-> deadline.v,
          labels |-> DecodedLabels(labels), url |-> url.v,
          requested_by |-> requested_by, owned_by |-> owned_by,
          story_type |-> stype.v, current_state |-> state.v,
          description |-> description, name |-> name,
          estimate |-> estimate])

FromXmlElements(els) ==
  FromXmlFields(ParseInt(FirstChildData(els, "id")),
                FirstChildData(els, "url"),
                GetDataFromTag(els, "owned_by"),
                ParseDatetimeIntoSecs(els, "created_at"),
                GetDataFromTag(els, "requested_by"),
                IterationNumber(GetDataFromTag(els, "number")),
                FirstChildData(els, "story_type"),
                FirstChildData(els, "current_state"),
                GetDataFromTag(els, "name"),
                GetDataFromTag(els, "description"),
                ParseDatetimeIntoSecs(els, "deadline"),
                GetDataFromTag(els, "estimate"),
                GetDataFromTag(els, "labels"))

\* Story.FromXml: [exc, v], v the Story when exc = "none"
FromXml(doc) ==
  IF ~doc.wf THEN Result("ExpatError", BareStory)
  ELSE FromXmlElements(Flatten(doc.stories))

(***************************************************************************)
(* Inputs the callers and the service supply                               *)
(***************************************************************************)
TxAccepted == <<"a", "c", "c", "e", "p", "t", "e", "d">>
TxFeature == <<"f", "e", "a", "t", "u", "r", "e">>
TxBug == <<"b", "u", "g">>
TxEpic == <<"e", "p", "i", "c">>
TxUtc == <<"2", "0", "2", "4", "/", "0", "1", "/", "1", "5", " ", "1", "0", ":", "3", "0", ":", "0", "0", " ", "U", "T", "C">>
TxGmt == <<"2", "0", "2", "4", "/", "0", "1", "/", "1", "5", " ", "1", "0", ":", "3", "0", ":", "0", "0", " ", "G", "M", "T">>
TxPst == <<"2", "0", "2", "4", "/", "0", "1", "/", "1", "5", " ", "1", "0", ":", "3", "0", ":", "0", "0", " ", "P", "S", "T">>
TxNoSpace == <<"2", "0", "2", "4", "/", "0", "1", "/", "1", "5", " ", "1", "0", ":", "3", "0", ":", "4", "5", "U", "T", "C">>
TxShort == <<"2", "0", "2", "4", "/", "1", "/", "5", " ", "1", ":", "2", ":", "3", " ", "U", "T", "C">>
TxFeb30 == <<"2", "0", "2", "4", "/", "0", "2", "/", "3", "0", " ", "1", "0", ":", "3", "0", ":", "0", "0", " ", "U", "T", "C">>
TxDateOnly == <<"2", "0", "2", "4", "/", "0", "1", "/", "1", "5", " ", "U", "T", "C">>
TxEpoch == <<"1", "9", "7", "0", "/", "0", "1", "/", "0", "1", " ", "0", "0", ":", "0", "0", ":", "0", "0", " ", "U", "T", "C">>
TxLabels == <<"b", ",", " ", "a", ",", " ", "a">>

\* 2024/01/15 10:30:00 UTC in seconds since the epoch
SampleSecs == 1705276800 + 37800

StoryTypeInputs == {PyStr(TxFeature), PyStr(TxBug), PyStr(TxEpic)}
NameInputs == {PyStr(<<>>), PyStr(<<"x">>)}
EstimateInputs == {PyInt(0), PyStr(<<"3">>)}
OtherInputs == {PyStr(<<"o">>)}
SecsInputs == {PyInt(0), PyInt(SampleSecs)}
LabelInputs == {<<"a">>, <<"b">>, <<>>}
LabelStringInputs == {TxLabels, <<>>}


RequiredTags == <<"id", "url", "story_type", "current_state">>
TextTags == {"owned_by", "requested_by", "name", "description", "estimate",
             "number", "labels"}
DateTags == {"created_at", "deadline"}
OptionalTags == TextTags \cup DateTags

\* the body the service gives a populated tag
SampleText(tag) ==
  CASE tag = "id" -> <<"1", "0", "1">>
    [] tag = "url" -> <<"u">>
    [] tag = "story_type" -> TxFeature
    [] tag = "current_state" -> TxAccepted
    [] tag = "estimate" -> <<"3">>
    [] tag = "number" -> <<"7">>
    [] tag = "labels" -> TxLabels
    [] tag \in DateTags -> TxUtc
    [] OTHER -> <<"o">>

TypeOf(tag) == IF tag \in DateTags THEN "datetime" ELSE ""

RequiredElements ==
  [i \in 1..Len(RequiredTags) |->
     Element(RequiredTags[i], SampleText(RequiredTags[i]), "")]

\* a story document: the required elements, then `extra`
StoryDoc(extra) == Doc(TRUE, <<RequiredElements \o extra>>)

FullElements(id) ==
  <<Element("id", id, ""), Element("url", <<"u">>, ""),
    Element("created_at", TxUtc, "datetime"),
    Element("story_type", TxFeature, ""),
    Element("current_state", TxAccepted, ""),
    Element("name", <<"x">>, ""), Element("labels", <<"a">>, "")>>

FullDoc == Doc(TRUE, <<FullElements(<<"1", "0", "1">>)>>)
ListDoc == Doc(TRUE, <<FullElements(<<"1", "0", "1">>),
                       FullElements(<<"1", "0", "2">>)>>)
EmptyListDoc == Doc(TRUE, <<>>)
MalformedDoc == Doc(FALSE, <<>>)

DateTexts == {TxUtc, TxGmt, TxPst, TxNoSpace, TxShort, TxFeb30, TxDateOnly,
              TxEpoch}

\* documents handed to Story.FromXml
InputDocs ==
  {StoryDoc(<<>>), FullDoc, ListDoc, MalformedDoc}
  \cup {StoryDoc(<<Element(tag, <<>>, TypeOf(tag))>>) : tag \in OptionalTags}
  \cup {StoryDoc(<<Element(tag, SampleText(tag), TypeOf(tag))>>) :
          tag \in OptionalTags}
  \cup {StoryDoc(<<Element(tag, text, "datetime")>>) :
          tag \in DateTags, text \in DateTexts}
  \cup {StoryDoc(<<Element("deadline", TxUtc, "")>>)}
  \cup {Doc(TRUE, <<SelectSeq(RequiredElements, LAMBDA e : e.tag # RequiredTags[i])>>) :
          i \in 1..Len(RequiredTags)}
  \cup {Doc(TRUE, <<[RequiredElements EXCEPT ![i].text = <<>>]>>) :
          i \in 1..Len(RequiredTags)}
  \cup {Doc(TRUE, <<[RequiredElements EXCEPT ![3].text = TxEpic]>>),
        Doc(TRUE, <<[RequiredElements EXCEPT ![1].text = <<"x">>]>>)}

(***************************************************************************)
(* Calls on a Story                                                        *)
(***************************************************************************)
Observe(op, exc, text, adoc, rxml, rstr, rlist) ==
  /\ lastOp' = op
  /\ raised' = exc
  /\ argText' = text
  /\ argDoc' = adoc
  /\ retXml' = rxml
  /\ retStr' = rstr
  /\ ret' = rlist

\* a call that returns nothing
Returns(op, text) == Observe(op, "none", text, <<>>, <<>>, None, <<>>)

Mutate(op, text, s) ==
  /\ calls < MaxCalls
  /\ story' = s
  /\ calls' = calls + 1
  /\ Returns(op, text)
  /\ UNCHANGED trackerVars

\* Story()
NewStory ==
  /\ story' = BareStory
  /\ calls' = 0
  /\ Returns("Story", <<>>)
  /\ UNCHANGED trackerVars

SetRequestedBy ==
  \E v \in OtherInputs :
    Mutate("SetRequestedBy", <<>>, SetAttr(story, "requested_by", v))

SetOwnedBy ==
  \E v \in OtherInputs :
    Mutate("SetOwnedBy", <<>>, SetAttr(story, "owned_by", v))

SetStoryType ==
  \E v \in StoryTypeInputs :
    IF SetStoryTypeOk(v)
    THEN Mutate("SetStoryType", <<v.s>>, SetAttr(story, "story_type", v))
    ELSE /\ calls < MaxCalls
         /\ calls' = calls + 1
         /\ Observe("SetStoryType", "AssertionError", <<v.s>>, <<>>, <<>>,
                    None, <<>>)
         /\ UNCHANGED <<story, trackerVars>>

SetCurrentState ==
  Mutate("SetCurrentState", <<>>,
         SetAttr(story, "current_state", PyStr(TxAccepted)))

SetName ==
  \E v \in NameInputs : Mutate("SetName", <<>>, SetAttr(story, "name", v))

SetEstimate ==
  \E v \in EstimateInputs :
    Mutate("SetEstimate", <<>>, SetAttr(story, "estimate", v))

SetDescription ==
  \E v \in OtherInputs :
    Mutate("SetDescription", <<>>, SetAttr(story, "description", v))

SetDeadline ==
  \E v \in SecsInputs :
    Mutate("SetDeadline", <<>>, SetAttr(story, "deadline", v))

SetCreatedAt ==
  \E v \in SecsInputs :
    Mutate("SetCreatedAt", <<>>, SetAttr(story, "created_at", v))

AddLabelCall ==
  \E l \in LabelInputs : Mutate("AddLabel", <<l>>, AddLabel(story, l))

RemoveLabelCall ==
  \E l \in LabelInputs : Mutate("RemoveLabel", <<l>>, RemoveLabel(story, l))

AddLabelsFromStringCall ==
  \E l \in LabelStringInputs :
    Mutate("AddLabelsFromString", <<l>>, AddLabelsFromString(story, l))

GetLabelsAsStringCall ==
  /\ Observe("GetLabelsAsString", "none", <<>>, <<>>, <<>>,
             GetLabelsAsString(story), <<>>)
  /\ UNCHANGED <<storyVars, trackerVars>>

ToXmlCall ==
  /\ Observe("ToXml", "none", <<>>, <<>>, <<ToXml(story)>>, None, <<>>)
  /\ UNCHANGED <<storyVars, trackerVars>>

\* Story.FromXml(story.ToXml())
Decode(op, d, r) ==
  Observe(op, r.exc, <<>>, <<d>>, <<>>, None,
          IF r.exc = "none" THEN <<r.v>> ELSE <<>>)

RoundTrip(xml) ==
  /\ Decode("FromXml(ToXml)", xml, FromXml(xml))
  /\ UNCHANGED <<storyVars, trackerVars>>

FromXmlOfToXml == RoundTrip(ToXml(story))

\* Story.FromXml on each of the input documents
Decoded == [d \in InputDocs |-> FromXml(d)]

\* story = Story.FromXml(doc)
Adopt(d, r) ==
  /\ Decode("FromXml", d, r)
  /\ story' = IF r.exc = "none" THEN r.v ELSE story
  /\ calls' = IF r.exc = "none" THEN 0 ELSE calls
  /\ UNCHANGED trackerVars

FromXmlCall == \E d \in InputDocs : Adopt(d, Decoded[d])

Init ==
  /\ story = BareStory
  /\ calls = 0
  /\ lastOp = "Story"
  /\ raised = "none"
  /\ argText = <<>>
  /\ argDoc = <<>>
  /\ retXml = <<>>
  /\ retStr = None
  /\ ret = <<>>
  /\ tracker = "none"
  /\ token = None
  /\ authCalls = 0
  /\ request = <<>>
  /\ response = <<>>

\* a caller building and encoding a Story
Next ==
  \/ NewStory
  \/ SetRequestedBy
  \/ SetOwnedBy
  \/ SetStoryType
  \/ SetCurrentState
  \/ SetName
  \/ SetEstimate
  \/ SetDescription
  \/ SetDeadline
  \/ SetCreatedAt
  \/ AddLabelCall
  \/ RemoveLabelCall
  \/ AddLabelsFromStringCall
  \/ GetLabelsAsStringCall
  \/ ToXmlCall
  \/ FromXmlOfToXml

Spec == Init /\ [][Next]_vars

\* a caller decoding documents of the service and editing the labels
NextDecode ==
  \/ FromXmlCall
  \/ AddLabelCall
  \/ RemoveLabelCall
  \/ GetLabelsAsStringCall
  \/ ToXmlCall

SpecDecode == Init /\ [][NextDecode]_vars


(***************************************************************************)
(* Auth providers and the Tracker client                                   *)
(***************************************************************************)
Http(status, body) == [status |-> status, body |-> body]

TxToken == <<"t">>
TokenDoc(text) == Doc(TRUE, <<<<Element("guid", text, "")>>>>)

\* what /services/tokens/active may answer: a token document, documents
\* HostedTrackerAuth cannot read, HTTP errors, no connection
TokenResponses ==
  {Http("200", TokenDoc(TxToken)), Http("200", TokenDoc(<<>>)),
   Http("200", EmptyListDoc), Http("200", MalformedDoc),
   Http("404", MalformedDoc), Http("500", MalformedDoc),
   Http("URLError", MalformedDoc)}

\* HostedTrackerAuth.EstablishAuthToken: [exc, v]
HostedEstablishAuthToken(resp) ==
  IF resp.status = "URLError" THEN Result("URLError", None)
  ELSE IF resp.status = "404" THEN Result("NoTokensAvailableException", None)
  ELSE IF resp.status # "200" THEN Result("HTTPError", None)
  ELSE IF ~resp.body.wf THEN Result("ExpatError", None)
  ELSE FirstChildData(Flatten(resp.body.stories), "guid")

\* TrackerAuth.EstablishAuthToken of another provider: "the value for use as
\* the X-TrackerToken HTTP header, or None"
OtherAuthTokens == {None, PyStr(<<>>), PyStr(<<"t", "2">>)}

\* _Api without the "if self.token:" branch that adds the header
TokenHeaderNeverSent(tok) == None

\* _Api: the headers of the request
TokenHeader(tok) == IF Truthy(tok) THEN tok ELSE None

\* _Api: "if not body and method == 'GET'" sends no body and no Content-Type
Request(method, res, id, tok, body) ==
  [method |-> method, res |-> res, id |-> id,
   xTrackerToken |-> TokenHeader(tok),
   contentType |-> ~(body = <<>> /\ method = "GET"),
   body |-> body]

\* _Api: an HTTPError becomes TrackerApiException, anything else propagates
ApiExc(resp) ==
  IF resp.status = "URLError" THEN "URLError"
  ELSE IF resp.status # "200" THEN "TrackerApiException"
  ELSE "none"

\* _ApiQueryStories without the expat sanity check
ExpatExcUnchecked(doc) == "none"

\* xml.parsers.expat.ParserCreate('utf-8').Parse(output, True)
ExpatExc(doc) == IF doc.wf THEN "none" ELSE "ExpatError"

\* for el in parsed.getElementsByTagName('story'): Story.FromXml(el.toxml())
RECURSIVE DecodeStories(_, _)
DecodeStories(doc, i) ==
  IF i > Len(doc.stories) THEN <<>>
  ELSE <<FromXml(Doc(TRUE, <<doc.stories[i]>>))>> \o DecodeStories(doc, i + 1)

\* what the service may answer a request of the Tracker
ApiResponses ==
  {Http("200", FullDoc), Http("200", ListDoc), Http("200", MalformedDoc),
   Http("500", MalformedDoc), Http("URLError", MalformedDoc)}

\* the outcome of a list call on an answer: [exc, v], v the list
\* the list of the decoded stories, or the first exception
StoryList(rs) ==
  IF FirstError([i \in DOMAIN rs |-> rs[i].exc]) # "none"
  THEN Result(FirstError([i \in DOMAIN rs |-> rs[i].exc]), <<>>)
  ELSE Result("none", [i \in DOMAIN rs |-> rs[i].v])

QueryStories(resp) ==
  IF ApiExc(resp) # "none" THEN Result(ApiExc(resp), <<>>)
  ELSE IF ExpatExc(resp.body) # "none" THEN Result("ExpatError", <<>>)
  ELSE StoryList(DecodeStories(resp.body, 1))

\* the outcome of a call that decodes one story: return Story.FromXml(res)
Returned(r) ==
  IF r.exc # "none" THEN Result(r.exc, <<>>) ELSE Result("none", <<r.v>>)

OneStory(resp) ==
  IF ApiExc(resp) # "none" THEN Result(ApiExc(resp), <<>>)
  ELSE Returned(FromXml(resp.body))

\* the outcome of a call that ignores the answer's body
NoResult(resp) == Result(ApiExc(resp), <<>>)

\* the three outcomes on each of the answers
QueryOutcome == [resp \in ApiResponses |-> QueryStories(resp)]
OneOutcome == [resp \in ApiResponses |-> OneStory(resp)]
NoOutcome == [resp \in ApiResponses |-> NoResult(resp)]

\* xml.sax.saxutils.escape: & < > replaced
EscapeChar(c) ==
  CASE c = "&" -> <<"&", "a", "m", "p", ";">>
    [] c = "<" -> <<"&", "l", "t", ";">>
    [] c = ">" -> <<"&", "g", "t", ";">>
    [] OTHER -> <<c>>

RECURSIVE Escape(_, _)
Escape(s, i) ==
  IF i > Len(s) THEN <<>> ELSE EscapeChar(s[i]) \o Escape(s, i + 1)

\* '<note><text>%s</text></note>' % xml.sax.saxutils.escape(comment)
NoteDoc(comment) == Doc(TRUE, <<<<Element("text", Escape(comment, 1), "")>>>>)

StoryIdInputs == {101}
CommentInputs == {<<"a", "&", "b">>}
FilterInputs == {<<>>, <<"x">>}

\* one request of the Tracker and what the call makes of the answer
ApiCall(op, req, resp, out) ==
  /\ tracker = "ready"
  /\ request' = <<req>>
  /\ response' = <<resp>>
  /\ Observe(op, out.exc, <<>>, <<>>, <<>>, None, out.v)
  /\ UNCHANGED <<storyVars, tracker, token, authCalls>>

\* Tracker(project_id, auth): self.token = auth.EstablishAuthToken(opener)
Construct(op, r, resps) ==
  /\ tracker = "none"
  /\ authCalls' = authCalls + 1
  /\ tracker' = IF r.exc = "none" THEN "ready" ELSE "failed"
  /\ token' = IF r.exc = "none" THEN r.v ELSE token
  /\ request' = <<>>
  /\ response' = resps
  /\ Observe(op, r.exc, <<>>, <<>>, <<>>, None, <<>>)
  /\ UNCHANGED storyVars

TrackerWithHostedAuth ==
  \E resp \in TokenResponses :
    Construct("Tracker(HostedTrackerAuth)", HostedEstablishAuthToken(resp),
              <<resp>>)

TrackerWithOtherAuth ==
  \E tok \in OtherAuthTokens :
    Construct("Tracker(TrackerAuth)", Result("none", tok), <<>>)

GetStories ==
  \E filt \in FilterInputs, resp \in ApiResponses :
    ApiCall("GetStories",
            Request("GET", IF filt # <<>> THEN "stories?filter=" ELSE "stories",
                    None, token, <<>>),
            resp, QueryOutcome[resp])

GetIterationStories ==
  \E resp \in ApiResponses :
    ApiCall("GetIterationStories",
            Request("GET", "iterations", None, token, <<>>),
            resp, QueryOutcome[resp])

GetStory ==
  \E id \in StoryIdInputs, resp \in ApiResponses :
    ApiCall("GetStory", Request("GET", "stories", PyInt(id), token, <<>>),
            resp, OneOutcome[resp])

AddComment ==
  \E id \in StoryIdInputs, c \in CommentInputs, resp \in ApiResponses :
    ApiCall("AddComment",
            Request("POST", "notes", PyInt(id), token, <<NoteDoc(c)>>),
            resp, NoOutcome[resp])

AddNewStory ==
  \E resp \in ApiResponses :
    ApiCall("AddNewStory",
            Request("POST", "stories", None, token, <<ToXml(story)>>),
            resp, OneOutcome[resp])

UpdateStoryById ==
  \E id \in StoryIdInputs, resp \in ApiResponses :
    ApiCall("UpdateStoryById",
            Request("PUT", "stories", PyInt(id), token, <<ToXml(story)>>),
            resp, OneOutcome[resp])

\* 'stories/%d' % story.GetStoryId() raises TypeError on a Story without id
UpdateStory ==
  IF story.story_id = None
  THEN /\ tracker = "ready"
       /\ request' = <<>>
       /\ response' = <<>>
       /\ Observe("UpdateStory", "TypeError", <<>>, <<>>, <<>>, None, <<>>)
       /\ UNCHANGED <<storyVars, tracker, token, authCalls>>
  ELSE \E resp \in ApiResponses :
         ApiCall("UpdateStory",
                 Request("PUT", "stories", story.story_id, token,
                         <<ToXml(story)>>),
                 resp, OneOutcome[resp])

\* the body of a DELETE is ''
DeleteStory ==
  \E id \in StoryIdInputs, resp \in ApiResponses :
    ApiCall("DeleteStory",
            Request("DELETE", "stories", PyInt(id), token, <<>>),
            resp, NoOutcome[resp])

\* the value a setter gives a field in the sample stories
SampleValue(field) ==
  CASE field = "story_type" -> PyStr(TxFeature)
    [] field = "current_state" -> PyStr(TxAccepted)
    [] field = "name" -> PyStr(<<>>)
    [] field = "estimate" -> PyInt(0)
    [] OTHER -> PyStr(<<"o">>)

\* Story() with the setters of the fields in S called
StoryWith(S) ==
  [f \in DOMAIN BareStory |-> IF f \in S THEN SampleValue(f) ELSE BareStory[f]]

\* the stories a caller hands to the Tracker: any subset of the scalar
\* fields set, a story with labels, and a story fetched from the service
SampleStories ==
  {StoryWith(S) : S \in SUBSET Range(UPDATE_FIELDS)}
  \cup {AddLabel(BareStory, <<"a">>), FromXml(FullDoc).v}

InitTracker ==
  /\ story \in SampleStories
  /\ calls = 0
  /\ lastOp = "Story"
  /\ raised = "none"
  /\ argText = <<>>
  /\ argDoc = <<>>
  /\ retXml = <<>>
  /\ retStr = None
  /\ ret = <<>>
  /\ tracker = "none"
  /\ token = None
  /\ authCalls = 0
  /\ request = <<>>
  /\ response = <<>>

NextTracker ==
  \/ TrackerWithHostedAuth
  \/ TrackerWithOtherAuth
  \/ GetStories
  \/ GetIterationStories
  \/ GetStory
  \/ AddComment
  \/ AddNewStory
  \/ UpdateStoryById
  \/ UpdateStory
  \/ DeleteStory

SpecTracker == InitTracker /\ [][NextTracker]_vars


(***************************************************************************)
(* Properties of the Tracker client, checked under SpecTracker             *)
(***************************************************************************)
\* the position of a field in the whitelist
FieldIndex(f) == CHOOSE i \in 1..Len(UPDATE_FIELDS) : UPDATE_FIELDS[i] = f

\* the child elements of the <story> document a request sends
BodyElements(req) == req.body[1].stories[1]

\* labels, deadline and created_at unspecified
OnlyScalarsSpecified(s) ==
  s.labels = <<>> /\ s.deadline = None /\ s.created_at = None

\* C1: for a Story with only a subset S of the whitelisted scalar fields
\* specified (labels, deadline, created_at unspecified), the body
\* UpdateStoryById sends holds exactly one element for each field of S, with
\* the field's value, in whitelist order, and no element of another field; a
\* bare Story with only current_state = "accepted" sends the one element
\* current_state.
C1_UpdateBodyHoldsExactlyTheSpecifiedFields ==
  (lastOp = "UpdateStoryById" /\ request # <<>> /\ OnlyScalarsSpecified(story))
    => /\ \A f \in Range(UPDATE_FIELDS) :
            Cardinality({i \in DOMAIN BodyElements(request[1]) :
                           BodyElements(request[1])[i].tag = f})
              = IF story[f] # None THEN 1 ELSE 0
       /\ \A i \in DOMAIN BodyElements(request[1]) :
            /\ BodyElements(request[1])[i].tag \in Range(UPDATE_FIELDS)
            /\ BodyElements(request[1])[i].text
                 = Unicode(story[BodyElements(request[1])[i].tag])
       /\ \A i, j \in DOMAIN BodyElements(request[1]) :
            i < j => FieldIndex(BodyElements(request[1])[i].tag)
                       < FieldIndex(BodyElements(request[1])[j].tag)
       /\ (story = StoryWith({"current_state"})
             => Len(BodyElements(request[1])) = 1
                /\ BodyElements(request[1])[1].tag = "current_state"
                /\ BodyElements(request[1])[1].text = TxAccepted)

\* an update of a Story with only name = '' and estimate = 0 set has been
\* sent, and its body holds the two elements
C1_EmptyNameAndZeroEstimateSent ==
  /\ lastOp = "UpdateStoryById"
  /\ request # <<>>
  /\ story = StoryWith({"name", "estimate"})
  /\ [i \in 1..2 |-> BodyElements(request[1])[i].tag] = <<"name", "estimate">>

\* C3: when token issuance fails during construction, HTTP 404 raises
\* NoTokensAvailableException and every other transport failure (another
\* HTTP error status, no connection) raises TrackerAuthException; in both
\* cases construction fails and no token is stored.
C3_AuthFailuresAreClassified ==
  (lastOp = "Tracker(HostedTrackerAuth)" /\ response[1].status # "200")
    => /\ raised = IF response[1].status = "404"
                   THEN "NoTokensAvailableException"
                   ELSE "TrackerAuthException"
       /\ tracker = "failed"
       /\ token = None

MalformedSuccess ==
  request # <<>> /\ response[1].status = "200" /\ ~response[1].body.wf

DecodingOps ==
  {"GetStories", "GetIterationStories", "GetStory", "AddNewStory",
   "UpdateStoryById", "UpdateStory"}

LabelsOf(s) == IF s.labels = <<>> THEN {} ELSE s.labels[1]

\* the elements of the document the last ToXml call returned
ReturnedElements == retXml[1].stories[1]

\* 'YYYY/MM/DD HH:MM:SS', a space and the timezone token
ExactShape(text, zones) ==
  /\ Len(text) = 23
  /\ \A i \in 1..19 :
       IF i \in {5, 8} THEN text[i] = "/"
       ELSE IF i = 11 THEN text[i] = " "
       ELSE IF i \in {14, 17} THEN text[i] = ":"
       ELSE IsDigit(text[i])
  /\ text[20] = " "
  /\ SubSeq(text, 21, 23) \in zones

\* C2: for a Story built with any subset of its mutable fields set,
\* Story.FromXml(story.ToXml()) succeeds and returns a Story in which every
\* field carries the value it had: the specified fields their values, the
\* unspecified fields None.
C2_RoundTripReproducesTheStory ==
  (lastOp = "FromXml(ToXml)" /\ story.created_at = None)
    => /\ raised = "none"
       /\ ret # <<>>
       /\ \A f \in DOMAIN BareStory : ret[1][f] = story[f]

\* C6: decoding a created_at or deadline element succeeds only when its text
\* is 'YYYY/MM/DD HH:MM:SS', a space, and GMT or UTC; on any other text
\* Story.FromXml fails.
C6_DatetimeDecodesOnlyInExactShape ==
  (lastOp = "FromXml" /\ raised = "none")
    => \A e \in Range(Flatten(argDoc[1].stories)) :
         e.tag \in DateTags
           => ExactShape(e.text, {<<"G", "M", "T">>, <<"U", "T", "C">>})

\* the field of Story an optional tag is decoded into
FieldOf(tag) == IF tag = "number" THEN "iteration_number" ELSE tag

Unspecified(s, f) == IF f = "labels" THEN s.labels = <<>> ELSE s[f] = None

\* the optional tags decoded as strings
StringTags == TextTags \ {"number", "labels"}

\* C7: Story.FromXml applies one three-way rule to every optional field: tag
\* absent, the field stays unspecified; tag present with an empty body,
\* decoding succeeds and the field is set (to '' for a string field), not
\* left unspecified; tag populated, the field takes the tag's value.
C7_ThreeWayRuleForEveryOptionalField ==
  lastOp = "FromXml"
    => \A tag \in OptionalTags :
         /\ argDoc = <<StoryDoc(<<>>)>>
              => raised = "none" /\ Unspecified(ret[1], FieldOf(tag))
         /\ argDoc = <<StoryDoc(<<Element(tag, <<>>, TypeOf(tag))>>)>>
              => /\ raised = "none"
                 /\ ~Unspecified(ret[1], FieldOf(tag))
                 /\ (tag \in StringTags => ret[1][tag] = PyStr(<<>>))
         /\ argDoc = <<StoryDoc(<<Element(tag, SampleText(tag), TypeOf(tag))>>)>>
              => /\ raised = "none"
                 /\ ~Unspecified(ret[1], FieldOf(tag))
                 /\ (tag \in StringTags => ret[1][tag] = PyStr(SampleText(tag)))

\* C8: Story.ToXml treats a field set to 0 or '' as specified: every field
\* that is not None has its element, a timestamp in the wire datetime shape
\* with the UTC suffix and type="datetime", and only the fields never set
\* are omitted.
C8_ZeroAndEmptyAreSpecified ==
  lastOp = "ToXml"
    => /\ \A f \in Range(UPDATE_FIELDS) :
            story[f] # None
              <=> \E i \in DOMAIN ReturnedElements : ReturnedElements[i].tag = f
       /\ \A f \in DateTags :
            story[f] # None
              <=> \E i \in DOMAIN ReturnedElements :
                    /\ ReturnedElements[i].tag = f
                    /\ ReturnedElements[i].type = "datetime"
                    /\ ExactShape(ReturnedElements[i].text, {<<"U", "T", "C">>})

\* C9 as stated: RemoveLabel(l) on a Story whose labels do not contain l,
\* unspecified labels included, raises nothing and leaves the Story as it
\* was, the result of GetLabelsAsString included.
C9_RemoveOfAbsentLabelIsNoOp ==
  [][(lastOp' = "RemoveLabel" /\ argText'[1] \notin LabelsOf(story))
       => /\ raised' = "none"
          /\ story' = story
          /\ GetLabelsAsString(story') = GetLabelsAsString(story)]_vars

\* C9 as amended: RemoveLabel(l) on a Story whose labels do not contain l
\* raises nothing; when the labels are specified the Story is left as it
\* was; when they are unspecified they become the empty set, so that
\* GetLabelsAsString returns '' where it returned None, every other field is
\* left as it was and ToXml returns what it returned before.
C9_RemoveOfAbsentLabelKeepsTheLabels ==
  [][(lastOp' = "RemoveLabel" /\ argText'[1] \notin LabelsOf(story))
       => /\ raised' = "none"
          /\ (story.labels # <<>> => story' = story)
          /\ (story.labels = <<>>
                => /\ story'.labels = <<{}>>
                   /\ \A f \in DOMAIN BareStory \ {"labels"} :
                        story'[f] = story[f]
                   /\ GetLabelsAsString(story) = None
                   /\ GetLabelsAsString(story') = PyStr(<<>>))
          /\ ToXml(story') = ToXml(story)]_vars

\* RemoveLabel('b') has been called on a Story labelled 'a' alone
C9_AbsentLabelRemovedFromLabelledStory ==
  /\ lastOp = "RemoveLabel"
  /\ argText = <<<<"b">>>>
  /\ story.labels = <<{<<"a">>}>>

\* the labels elements of the document the last ToXml call returned
ReturnedLabels == SelectSeq(ReturnedElements, LAMBDA e : e.tag = "labels")

\* C10: a Story whose label set is empty encodes like a Story whose labels
\* are unspecified: ToXml emits no labels element, so the body never carries
\* an empty labels value; when the set is not empty the body carries exactly
\* one labels element holding the sorted, comma-joined set.
C10_EmptyLabelSetEncodesLikeUnspecified ==
  lastOp = "ToXml"
    => /\ (LabelsOf(story) = {} => ReturnedLabels = <<>>)
       /\ \A i \in DOMAIN ReturnedLabels : ReturnedLabels[i].text # <<>>
       /\ (LabelsOf(story) # {}
             => /\ Len(ReturnedLabels) = 1
                /\ ReturnedLabels[1].text = Join(Sorted(LabelsOf(story))))

====
